---------------------------- MODULE Spec2Model ----------------------------
(***************************************************************************)
(* A model of the two command-line tools of collectZ:                      *)
(*   bluraySearch.py  keyword -> search URL -> result cards -> movies      *)
(*                    dict -> filtered listing on stdout                   *)
(*   blurayInfo.py    title, id -> detail URL -> page -> titleInfo list,   *)
(*                    ratings dict -> release record -> stdout             *)
(* Text is a sequence of one-character strings, so that split, replace,    *)
(* concatenation and pattern matching are computed character by character. *)
(* A Python dict is a sequence of <<key, value>> pairs in insertion order  *)
(* with distinct keys.  A find_all result is a sequence of elements; an    *)
(* element that find / attribute access would return as None is an empty   *)
(* sequence.  Each statement of a script is one action; an uncaught        *)
(* exception moves pc to "error" and records its class in err.             *)
(***************************************************************************)
EXTENDS Naturals, Sequences, FiniteSets

VARIABLES
    pc,             \* position in the running script
    err,            \* class of the uncaught exception, "" if none
    stdout,         \* lines printed so far: records [label, value]
    site,           \* what the remote site serves for the requested URL
    \* bluraySearch.py
    searchInput, searchTerm, url, searchresults, movies, i, j,
    \* blurayInfo.py
    titleInput, titleID, titleClean, titleURL, soup, titleInfo, td,
    ratings, movieRelease

searchVars == <<searchInput, searchTerm, url, searchresults, movies, i, j>>
infoVars == <<titleInput, titleID, titleClean, titleURL, soup, titleInfo, td,
              ratings, movieRelease>>
vars == <<pc, err, stdout, site, searchVars, infoVars>>

----------------------------------------------------------------------------
(* Bounds of the model.                                                    *)

MaxCards == 2       \* result cards on a search page
MaxKeyLen == 2      \* characters of a search keyword
MaxTitleLen == 3    \* characters of a generated detail title
MaxParts == 6       \* " | "-separated parts of a subheading line
MaxCells == 15      \* cells of a ratings table
MaxUrlLen == 5      \* characters of a generated IMDB link

SeqsUpTo(S, n) == UNION {[1..k -> S] : k \in 0..n}

----------------------------------------------------------------------------
(* Python str and list primitives.                                         *)

UpperCase == <<"A","B","C","D","E","F","G","H","I","J","K","L","M",
               "N","O","P","Q","R","S","T","U","V","W","X","Y","Z">>
LowerCase == <<"a","b","c","d","e","f","g","h","i","j","k","l","m",
               "n","o","p","q","r","s","t","u","v","w","x","y","z">>

\* str.lower() of one character, as re.IGNORECASE folds it
Lower(c) ==
    IF \E k \in 1..26 : UpperCase[k] = c
    THEN LowerCase[CHOOSE k \in 1..26 : UpperCase[k] = c]
    ELSE c

\* s[n:] with a 0-based n
Drop(s, n) == SubSeq(s, n + 1, Len(s))

\* s.startswith(p)
StartsWith(s, p) == Len(p) <= Len(s) /\ SubSeq(s, 1, Len(p)) = p

\* s.find(sep): 1-based index of the first occurrence, 0 if there is none
Find(s, sep) ==
    LET hits == {k \in 1..Len(s) : StartsWith(Drop(s, k - 1), sep)}
    IN  IF hits = {} THEN 0 ELSE CHOOSE k \in hits : \A m \in hits : k <= m

\* s.split(sep), sep not empty
RECURSIVE Split(_, _)
Split(s, sep) ==
    LET k == Find(s, sep)
    IN  IF k = 0 THEN <<s>>
        ELSE <<SubSeq(s, 1, k - 1)>> \o Split(Drop(s, k - 1 + Len(sep)), sep)

\* s.replace(old, new), old a single character
RECURSIVE Replace(_, _, _)
Replace(s, old, new) ==
    IF s = <<>> THEN <<>>
    ELSE (IF Head(s) = old THEN new ELSE <<Head(s)>>)
         \o Replace(Tail(s), old, new)

\* list.insert(k, x) with a 0-based k >= 0: past the end it appends
ListInsert(l, k, x) ==
    IF k >= Len(l) THEN Append(l, x)
    ELSE SubSeq(l, 1, k) \o <<x>> \o Drop(l, k)

\* a dict whose assignment keeps the value already stored under a key
DictSet_KeepFirst(d, key, value) ==
    IF \E k \in 1..Len(d) : d[k][1] = key THEN d ELSE Append(d, <<key, value>>)

\* d[key] = value on a dict: overwrite in place, or insert at the end
DictSet(d, key, value) ==
    IF \E k \in 1..Len(d) : d[k][1] = key
    THEN [k \in 1..Len(d) |-> IF d[k][1] = key THEN <<key, value>> ELSE d[k]]
    ELSE Append(d, <<key, value>>)

\* a dict display {k1: v1, k2: v2, ...}: the pairs are stored left to right
RECURSIVE DictLiteralFrom(_, _)
DictLiteralFrom(d, pairs) ==
    IF pairs = <<>> THEN d
    ELSE DictLiteralFrom(DictSet(d, pairs[1][1], pairs[1][2]), Tail(pairs))

DictLiteral(pairs) == DictLiteralFrom(<<>>, pairs)

DictKeys(d) == {d[k][1] : k \in 1..Len(d)}

Line(label, value) == [label |-> label, value |-> value]

----------------------------------------------------------------------------
(* re.search(pattern, string, re.IGNORECASE), for patterns made of literal *)
(* characters, "." and the postfix "*".                                    *)

\* re.compile raises re.error: "*" with nothing to repeat, or a repeat of a repeat
BadPattern(p) ==
    \E k \in 1..Len(p) : p[k] = "*" /\ (k = 1 \/ p[k - 1] = "*")

\* one pattern character against one subject character
CharMatch(c, d) == c = "." \/ Lower(c) = Lower(d)

RECURSIVE MatchHere(_, _)
MatchHere(p, s) ==
    IF p = <<>> THEN TRUE
    ELSE IF Len(p) >= 2 /\ p[2] = "*"
    THEN \E n \in 0..Len(s) :
            /\ \A k \in 1..n : CharMatch(p[1], s[k])
            /\ MatchHere(Drop(p, 2), Drop(s, n))
    ELSE /\ s # <<>>
         /\ CharMatch(p[1], s[1])
         /\ MatchHere(Tail(p), Tail(s))

\* the pattern matches somewhere in the subject
ReSearch(p, s) == \E k \in 0..Len(s) : MatchHere(p, Drop(s, k))

----------------------------------------------------------------------------
(* bluraySearch.py                                                         *)

pagenum == 1
baseURL_search == <<"h","t","t","p","s",":","/","/","w","w","w",".","b","l","u","-","r","a","y",".","c","o","m","/","s","e","a","r","c","h","/","?","q","u","i","c","k","s","e","a","r","c","h","=">>
country == <<"&","q","u","i","c","k","s","e","a","r","c","h","_","c","o","u","n","t","r","y","=","U","S">>
keyword == <<"&","q","u","i","c","k","s","e","a","r","c","h","_","k","e","y","w","o","r","d","=">>
searchSection == <<"&","s","e","c","t","i","o","n","=","b","l","u","r","a","y","m","o","v","i","e","s">>

Digits == <<"0","1","2","3","4","5","6","7","8","9">>

\* str(n) of a one-digit number
Str(n) == <<Digits[n + 1]>>

CardStyle == "display: inline-block"

\* soup.find_all('div', style="display: inline-block")
FindResultCards(divs) == SelectSeq(divs, LAMBDA d : d.style = CardStyle)

\* the dict stored for one result card's link; every link served carries the
\* data-* attributes, title and href the script reads
MovieEntry(a) ==
    [title |-> a.title, categoryID |-> a.categoryid, parentID |-> a.globalparentid,
     gproductID |-> a.globalproductid, productID |-> a.productid,
     productURL |-> a.href,
     productCover |-> IF a.img # <<>> THEN a.img[1] ELSE <<>>]

\* lines 11-15
BuildSearchURL ==
    /\ pc = "search_start"
    /\ searchTerm' = Replace(searchInput, " ", <<"+">>)
    /\ url' = baseURL_search \o Str(pagenum) \o country \o keyword \o searchTerm'
              \o searchSection
    /\ pc' = "search_fetch"
    /\ UNCHANGED <<err, stdout, site, searchInput, searchresults, movies, i, j,
                   infoVars>>

\* lines 19-21: the GET either raises or returns the page
FetchSearch ==
    /\ pc = "search_fetch"
    /\ \E ok \in BOOLEAN :
        IF ok
        THEN /\ searchresults' = FindResultCards(site)
             /\ pc' = "search_extract"
             /\ err' = err
        ELSE /\ searchresults' = searchresults
             /\ pc' = "error"
             /\ err' = "RequestException"
    /\ UNCHANGED <<stdout, site, searchInput, searchTerm, url, movies, i, j,
                   infoVars>>

\* lines 27-32: one iteration of the extraction loop
ExtractCard ==
    /\ pc = "search_extract"
    /\ i <= Len(searchresults)
    /\ LET div == searchresults[i]
       IN  movies' = IF div.a # <<>>
                     THEN DictSet(movies, div.a[1].productid, MovieEntry(div.a[1]))
                     ELSE movies
    /\ i' = i + 1
    /\ UNCHANGED <<pc, err, stdout, site, searchInput, searchTerm, url,
                   searchresults, j, infoVars>>

\* line 36
PrintHeader ==
    /\ pc = "search_extract"
    /\ i > Len(searchresults)
    /\ stdout' = Append(stdout, Line("Results:", <<>>))
    /\ pc' = "search_results"
    /\ UNCHANGED <<err, site, searchVars, infoVars>>

\* the empty-mapping branch without its message
PrintNoResults_Silent ==
    /\ pc = "search_results"
    /\ movies = <<>>
    /\ pc' = "done"
    /\ UNCHANGED <<err, stdout, site, searchVars, infoVars>>

\* lines 37-38
PrintNoResults ==
    /\ pc = "search_results"
    /\ movies = <<>>
    /\ stdout' = Append(stdout,
                    Line("No results. Try fewer words or check your spelling.", <<>>))
    /\ pc' = "done"
    /\ UNCHANGED <<err, site, searchVars, infoVars>>

\* the block printed for one entry, lines 42-46
EntryBlock(m) ==
    << Line("   ID:", m.productID), Line("Title:", m.title),
       Line(" Page:", m.productURL), Line("Cover:", m.productCover),
       Line("", <<>>) >>

\* re.search with its two arguments exchanged
TitleMatches_Swapped(m) == ReSearch(m.title, searchInput)

\* line 41: the pattern is the raw argument, the subject the entry's title
TitleMatches(m) == ReSearch(searchInput, m.title)

\* lines 40-46: one iteration of the print loop
FilterEntry ==
    /\ pc = "search_results"
    /\ j <= Len(movies)
    /\ LET m == movies[j][2]
       IN  IF BadPattern(searchInput)
           THEN /\ pc' = "error"
                /\ err' = "re.error"
                /\ UNCHANGED <<stdout, j>>
           ELSE /\ stdout' = IF TitleMatches(m) THEN stdout \o EntryBlock(m)
                             ELSE stdout
                /\ j' = j + 1
                /\ UNCHANGED <<pc, err>>
    /\ UNCHANGED <<site, searchInput, searchTerm, url, searchresults, movies, i,
                   infoVars>>

\* an exit that reports "no results" when the filter printed no entry
SearchExit_Reports ==
    /\ pc = "search_results"
    /\ movies # <<>>
    /\ j > Len(movies)
    /\ stdout' = IF Len(stdout) = 1
                 THEN Append(stdout,
                        Line("No results. Try fewer words or check your spelling.", <<>>))
                 ELSE stdout
    /\ pc' = "done"
    /\ UNCHANGED <<err, site, searchVars, infoVars>>

\* the loop of line 40 is exhausted: the script ends
SearchExit ==
    /\ pc = "search_results"
    /\ movies # <<>>
    /\ j > Len(movies)
    /\ pc' = "done"
    /\ UNCHANGED <<err, stdout, site, searchVars, infoVars>>

SearchNext ==
    \/ BuildSearchURL
    \/ FetchSearch
    \/ ExtractCard
    \/ PrintHeader
    \/ PrintNoResults
    \/ FilterEntry
    \/ SearchExit

----------------------------------------------------------------------------
(* Inputs of the search tool.                                              *)

Idle == <<>>

ProductIDs == {<<"1">>, <<"2">>}
Hrefs == {<<"/","x">>, <<"/","y">>}
Covers == {<<>>, <<<<"c">>>>}
FewTitles == {<<"A">>, <<"a","b">>}
ManyTitles == {<<"A">>, <<"b">>, <<"a","b">>, <<"B","A">>}
KeyChars == {"a", "B", ".", "*"}
FewKeywords == {<<"a">>, <<"B"," ","a">>, <<"b",".">>, <<"*">>}

Link(title, id, href, img) ==
    [title |-> title, categoryid |-> <<"7">>, globalparentid |-> <<"8">>,
     globalproductid |-> <<"9">>, productid |-> id, href |-> href, img |-> img]

Card(a) == [style |-> CardStyle, a |-> a]

CardsOver(titles, hrefs, covers) ==
    {Card(<<>>), [style |-> "float: left", a |-> <<Link(<<"A">>, <<"1">>, <<"/","x">>, <<>>)>>]}
    \cup {Card(<<Link(t, p, h, c)>>) :
            t \in titles, p \in ProductIDs, h \in hrefs, c \in covers}

InitSearchWith(keywords, cards) ==
    /\ pc = "search_start"
    /\ err = ""
    /\ stdout = <<>>
    /\ site \in SeqsUpTo(cards, MaxCards)
    /\ searchInput \in keywords
    /\ searchTerm = Idle /\ url = Idle /\ searchresults = Idle
    /\ movies = <<>>
    /\ i = 1 /\ j = 1
    /\ titleInput = Idle /\ titleID = Idle /\ titleClean = Idle
    /\ titleURL = Idle /\ soup = Idle /\ titleInfo = Idle /\ td = Idle
    /\ ratings = Idle /\ movieRelease = Idle

\* many pages, a few keywords
SearchInit == InitSearchWith(FewKeywords, CardsOver(FewTitles, Hrefs, Covers))
SearchSpec == SearchInit /\ [][SearchNext]_vars

\* many keywords, pages of cards that differ in title and product id
FilterInit ==
    InitSearchWith(SeqsUpTo(KeyChars, MaxKeyLen),
                   CardsOver(ManyTitles, {<<"/","x">>}, {<<<<"c">>>>}))
FilterSpec == FilterInit /\ [][SearchNext]_vars

----------------------------------------------------------------------------
(* Properties of the search tool.                                          *)

HeaderLine == Line("Results:", <<>>)
NoResultsLine == Line("No results. Try fewer words or check your spelling.", <<>>)

\* positions of stdout where an ID/Title/Page/Cover block starts
BlockStarts == {k \in 1..Len(stdout) : stdout[k].label = "   ID:"}

NoResultsPrinted == \E k \in 1..Len(stdout) : stdout[k] = NoResultsLine

\* the block at k shows an entry held in movies
BlockInMovies(k) ==
    /\ k + 4 <= Len(stdout)
    /\ stdout[k + 1].label = "Title:"
    /\ stdout[k + 2].label = " Page:"
    /\ stdout[k + 3].label = "Cover:"
    /\ \E n \in 1..Len(movies) :
        /\ movies[n][1] = stdout[k].value
        /\ movies[n][2].productID = stdout[k].value
        /\ movies[n][2].title = stdout[k + 1].value
        /\ movies[n][2].productURL = stdout[k + 2].value
        /\ movies[n][2].productCover = stdout[k + 3].value

\* K occurs in t as a substring, letter case ignored
ContainsCI(t, K) ==
    \E k \in 0..Len(t) :
        /\ k + Len(K) <= Len(t)
        /\ \A n \in 1..Len(K) : Lower(t[k + n]) = Lower(K[n])

\* K holds no character the pattern language gives a special meaning
PlainKeyword(K) == \A k \in 1..Len(K) : K[k] \notin {".", "*"}

\* C1 as stated: every printed entry is an entry of the extracted mapping and
\* its title contains the raw keyword as a case-insensitive substring.
C1_Original ==
    \A k \in BlockStarts :
        BlockInMovies(k) /\ ContainsCI(stdout[k + 1].value, searchInput)

\* C1 (amended): every printed entry is an entry of the extracted mapping and
\* its title matches the raw keyword read as a case-insensitive pattern; when
\* the keyword holds no pattern metacharacter, the title contains the keyword
\* as a case-insensitive substring.
C1_FilterSound ==
    \A k \in BlockStarts :
        /\ BlockInMovies(k)
        /\ ~BadPattern(searchInput)
        /\ ReSearch(searchInput, stdout[k + 1].value)
        /\ PlainKeyword(searchInput) => ContainsCI(stdout[k + 1].value, searchInput)

\* a finished run that printed one entry and dropped another, for a two-letter
\* plain keyword whose case differs from the title's
C1_Witness ==
    /\ pc = "done"
    /\ searchInput = <<"a", "B">>
    /\ Len(movies) = 2
    /\ Cardinality(BlockStarts) = 1
    /\ \E k \in BlockStarts : stdout[k + 1].value = <<"a", "b">>

\* C5: when the extracted mapping is empty, the run ends as a success having
\* printed the header and the "no results" message and no entry block.
C5_NoResults ==
    /\ (pc = "search_results" /\ movies = <<>>) => ENABLED PrintNoResults
    /\ (pc \in {"done", "error"} /\ err # "RequestException" /\ movies = <<>>)
        => /\ pc = "done"
           /\ err = ""
           /\ stdout = <<HeaderLine, NoResultsLine>>
           /\ BlockStarts = {}

\* a page with divs none of which qualifies
C5_Witness ==
    /\ pc = "done"
    /\ Len(site) = 2
    /\ movies = <<>>
    /\ NoResultsPrinted

\* the cards processed so far that carry a link
Processed == {k \in 1..(i - 1) : k <= Len(searchresults) /\ searchresults[k].a # <<>>}

\* C8: after any number of cards the mapping holds exactly one entry per
\* distinct productID, holding the fields of the last processed card with that
\* ID; overwriting raises no error.
C8_LastWins ==
    pc \in {"search_extract", "search_results", "done"} =>
        /\ err = ""
        /\ DictKeys(movies) = {searchresults[k].a[1].productid : k \in Processed}
        /\ Cardinality(DictKeys(movies)) = Len(movies)
        /\ \A n \in 1..Len(movies) :
            \E k \in Processed :
                LET a == searchresults[k].a[1]
                    m == movies[n][2]
                IN  /\ a.productid = movies[n][1]
                    /\ \A later \in Processed :
                        later > k => searchresults[later].a[1].productid # a.productid
                    /\ m.productID = a.productid
                    /\ m.title = a.title
                    /\ m.categoryID = a.categoryid
                    /\ m.parentID = a.globalparentid
                    /\ m.gproductID = a.globalproductid
                    /\ m.productURL = a.href
                    /\ m.productCover = (IF a.img = <<>> THEN <<>> ELSE a.img[1])

\* two cards with the same ID and different fields were processed
C8_Witness ==
    /\ pc = "search_results"
    /\ Len(searchresults) = 2
    /\ Processed = {1, 2}
    /\ searchresults[1].a[1].productid = searchresults[2].a[1].productid
    /\ searchresults[1].a[1].title # searchresults[2].a[1].title
    /\ searchresults[1].a[1].href # searchresults[2].a[1].href
    /\ Len(movies) = 1

\* the keyword compiles and matches the title
KeywordMatches(t) == ~BadPattern(searchInput) /\ ReSearch(searchInput, t)

\* C10: the "no results" message is printed exactly when the mapping is empty;
\* a run whose mapping is not empty and none of whose titles matches prints
\* the header alone.
C10_SilentEmptyFilter ==
    /\ NoResultsPrinted => movies = <<>>
    /\ (pc = "done" /\ movies = <<>>) => NoResultsPrinted
    /\ (/\ pc \in {"done", "error"}
        /\ movies # <<>>
        /\ \A n \in 1..Len(movies) : ~KeywordMatches(movies[n][2].title))
        => stdout = <<HeaderLine>>

\* two entries, neither matching a keyword that compiles
C10_Witness ==
    /\ pc = "done"
    /\ Len(movies) = 2
    /\ ~BadPattern(searchInput)
    /\ stdout = <<HeaderLine>>

----------------------------------------------------------------------------
(* blurayInfo.py                                                           *)

baseURL_info == <<"h","t","t","p","s",":","/","/","w","w","w",".","b","l","u","-","r","a","y",".","c","o","m","/","m","o","v","i","e","s","/">>
BluRaySuffix == <<"-","B","l","u","-","r","a","y","/">>

\* a cleaning that cuts at "(" alone, keeping the space before it
TitleClean_SplitParen(t) ==
    Replace(Replace(Split(t, <<"(">>)[1], " ", <<"-">>), "+", <<"a", "n", "d">>)

\* line 12: titleInput.split(' (')[0].replace(' ', '-').replace('+', 'and')
TitleClean(t) ==
    Replace(Replace(Split(t, <<" ", "(">>)[1], " ", <<"-">>), "+", <<"a", "n", "d">>)

\* line 15; titleID is already a str, so str(titleID) is titleID
TitleURL(clean, id) == baseURL_info \o clean \o BluRaySuffix \o id \o <<"/">>

\* lines 10-15
BuildTitleURL ==
    /\ pc = "info_start"
    /\ titleClean' = TitleClean(titleInput)
    /\ titleURL' = TitleURL(titleClean', titleID)
    /\ pc' = "info_fetch"
    /\ UNCHANGED <<err, stdout, site, searchVars, titleInput, titleID, soup,
                   titleInfo, td, ratings, movieRelease>>

\* lines 18-19: the GET either raises or returns the page
FetchInfo ==
    /\ pc = "info_fetch"
    /\ \E ok \in BOOLEAN :
        IF ok
        THEN /\ soup' = site
             /\ pc' = "info_subheading"
             /\ err' = err
        ELSE /\ soup' = soup
             /\ pc' = "error"
             /\ err' = "RequestException"
    /\ UNCHANGED <<stdout, site, searchVars, titleInput, titleID, titleClean,
                   titleURL, titleInfo, td, ratings, movieRelease>>

\* the statement at pc raises: nothing else changes
Raise(class) ==
    /\ pc' = "error"
    /\ err' = class
    /\ UNCHANGED <<titleInfo, td, ratings, movieRelease>>

\* line 22
ReadSubheading ==
    /\ pc = "info_subheading"
    /\ IF soup.subheading = <<>>
       THEN Raise("IndexError")
       ELSE /\ titleInfo' = Split(soup.subheading[1], <<" ", "|", " ">>)
            /\ pc' = "info_table"
            /\ UNCHANGED <<err, td, ratings, movieRelease>>
    /\ UNCHANGED <<stdout, site, searchVars, titleInput, titleID, titleClean,
                   titleURL, soup>>

\* lines 24-25
FindRatingCells ==
    /\ pc = "info_table"
    /\ IF soup.rating = <<>>
       THEN Raise("IndexError")
       ELSE IF soup.rating[1].table = <<>>
       THEN Raise("AttributeError")
       ELSE /\ td' = soup.rating[1].table[1]
            /\ pc' = "info_ratings"
            /\ UNCHANGED <<err, titleInfo, ratings, movieRelease>>
    /\ UNCHANGED <<stdout, site, searchVars, titleInput, titleID, titleClean,
                   titleURL, soup>>

Text3D == <<"3", "D">>
TextVideo4k == <<"V", "i", "d", "e", "o", " ", "4", "k">>

\* the number of label/value pairs the dict display of lines 27-32 lists
VariantPairs(first) ==
    IF first = Text3D THEN 5 ELSE IF first = TextVideo4k THEN 4 ELSE 3

\* pairs whose value is read one cell too early, td[3q + 1]
CellPairs_Adjacent(cells, n) == [q \in 1..n |-> <<cells[3 * q - 2], cells[3 * q - 1]>>]

\* the pairs td[3q].text: td[3q + 2].text for q = 0 .. n-1 (0-based cells)
CellPairs(cells, n) == [q \in 1..n |-> <<cells[3 * q - 2], cells[3 * q]>>]

\* lines 27-32
BuildRatings ==
    /\ pc = "info_ratings"
    /\ IF td = <<>>
       THEN Raise("IndexError")
       ELSE IF Len(td) < 3 * VariantPairs(td[1])
       THEN Raise("IndexError")
       ELSE /\ ratings' = DictLiteral(CellPairs(td, VariantPairs(td[1])))
            /\ pc' = "info_pad"
            /\ UNCHANGED <<err, titleInfo, td, movieRelease>>
    /\ UNCHANGED <<stdout, site, searchVars, titleInput, titleID, titleClean,
                   titleURL, soup>>

\* a padding that puts the empty studio at the end of the four parts
PadStudio_Append ==
    /\ pc = "info_pad"
    /\ titleInfo' = IF Len(titleInfo) = 4 THEN Append(titleInfo, <<>>)
                    ELSE titleInfo
    /\ pc' = "info_cover"
    /\ UNCHANGED <<err, stdout, site, searchVars, titleInput, titleID,
                   titleClean, titleURL, soup, td, ratings, movieRelease>>

\* lines 35-36
PadStudio ==
    /\ pc = "info_pad"
    /\ titleInfo' = IF Len(titleInfo) = 4 THEN ListInsert(titleInfo, 0, <<>>)
                    ELSE titleInfo
    /\ pc' = "info_cover"
    /\ UNCHANGED <<err, stdout, site, searchVars, titleInput, titleID,
                   titleClean, titleURL, soup, td, ratings, movieRelease>>

\* the cover art inserted one position too early
InsertCoverArt_OffByOne ==
    /\ pc = "info_cover"
    /\ IF soup.frontimage = <<>>
       THEN Raise("TypeError")
       ELSE /\ titleInfo' = ListInsert(titleInfo, 4, soup.frontimage[1])
            /\ pc' = "info_buylink"
            /\ UNCHANGED <<err, td, ratings, movieRelease>>
    /\ UNCHANGED <<stdout, site, searchVars, titleInput, titleID, titleClean,
                   titleURL, soup>>

\* line 39: soup.find gives None when there is no such img
InsertCoverArt ==
    /\ pc = "info_cover"
    /\ IF soup.frontimage = <<>>
       THEN Raise("TypeError")
       ELSE /\ titleInfo' = ListInsert(titleInfo, 5, soup.frontimage[1])
            /\ pc' = "info_buylink"
            /\ UNCHANGED <<err, td, ratings, movieRelease>>
    /\ UNCHANGED <<stdout, site, searchVars, titleInput, titleID, titleClean,
                   titleURL, soup>>

\* line 40
InsertAmazon ==
    /\ pc = "info_buylink"
    /\ IF soup.buylink = <<>>
       THEN Raise("IndexError")
       ELSE /\ titleInfo' = ListInsert(titleInfo, 6, soup.buylink[1])
            /\ pc' = "info_imdb"
            /\ UNCHANGED <<err, td, ratings, movieRelease>>
    /\ UNCHANGED <<stdout, site, searchVars, titleInput, titleID, titleClean,
                   titleURL, soup>>

\* line 41
InsertImdb ==
    /\ pc = "info_imdb"
    /\ IF soup.imdb = <<>>
       THEN Raise("IndexError")
       ELSE /\ titleInfo' = ListInsert(titleInfo, 7, soup.imdb[1])
            /\ pc' = "info_trailer"
            /\ UNCHANGED <<err, td, ratings, movieRelease>>
    /\ UNCHANGED <<stdout, site, searchVars, titleInput, titleID, titleClean,
                   titleURL, soup>>

\* a trailer step that puts an empty URL in place of a missing source
InsertTrailer_Lenient ==
    /\ pc = "info_trailer"
    /\ IF soup.trailer = <<>>
       THEN Raise("IndexError")
       ELSE /\ titleInfo' = ListInsert(titleInfo, 8,
                                IF soup.trailer[1].source = <<>> THEN <<>>
                                ELSE soup.trailer[1].source[1])
            /\ pc' = "info_title"
            /\ UNCHANGED <<err, td, ratings, movieRelease>>
    /\ UNCHANGED <<stdout, site, searchVars, titleInput, titleID, titleClean,
                   titleURL, soup>>

\* line 42: .source is None when the container holds no source element
InsertTrailer ==
    /\ pc = "info_trailer"
    /\ IF soup.trailer = <<>>
       THEN Raise("IndexError")
       ELSE IF soup.trailer[1].source = <<>>
       THEN Raise("TypeError")
       ELSE /\ titleInfo' = ListInsert(titleInfo, 8, soup.trailer[1].source[1])
            /\ pc' = "info_title"
            /\ UNCHANGED <<err, td, ratings, movieRelease>>
    /\ UNCHANGED <<stdout, site, searchVars, titleInput, titleID, titleClean,
                   titleURL, soup>>

\* line 43
InsertTitle ==
    /\ pc = "info_title"
    /\ titleInfo' = ListInsert(titleInfo, 9, titleInput)
    /\ pc' = "info_release"
    /\ UNCHANGED <<err, stdout, site, searchVars, titleInput, titleID,
                   titleClean, titleURL, soup, td, ratings, movieRelease>>

\* the segment before the right one, split('/')[3]
ImdbID_Fourth(imdbURL) == Split(imdbURL, <<"/">>)[4]

\* line 56: dictionary[7].split('/')[4]
ImdbID(imdbURL) == Split(imdbURL, <<"/">>)[5]

\* release.__init__ raises IndexError: dictionary[0..9] or segment [4] is missing
ReleaseFails(dictionary) ==
    \/ Len(dictionary) < 10
    \/ Len(Split(dictionary[8], <<"/">>)) < 5

\* release.__init__, lines 47-58 (dictionary[k] is dictionary[k + 1] here)
Release(dictionary) ==
    [studio |-> dictionary[1], year |-> dictionary[2], length |-> dictionary[3],
     rating |-> dictionary[4], date |-> dictionary[5], coverArt |-> dictionary[6],
     amazon |-> dictionary[7], imdbURL |-> dictionary[8],
     imdbID |-> ImdbID(dictionary[8]), trailer |-> dictionary[9],
     title |-> dictionary[10]]

\* line 64
ConstructRelease ==
    /\ pc = "info_release"
    /\ IF ReleaseFails(titleInfo)
       THEN Raise("IndexError")
       ELSE /\ movieRelease' = Release(titleInfo)
            /\ pc' = "info_print"
            /\ UNCHANGED <<err, titleInfo, td, ratings>>
    /\ UNCHANGED <<stdout, site, searchVars, titleInput, titleID, titleClean,
                   titleURL, soup>>

\* release.__str__, line 60, line by line
ReleaseStr(r) ==
    << Line("", r.title), Line("", r.studio \o <<" ">> \o r.year),
       Line("Duration: ", r.length), Line("Rated: ", r.rating),
       Line("Released: ", r.date), Line("Cover Art: ", r.coverArt),
       Line("Amazon Link: ", r.amazon), Line("IMDB Link: ", r.imdbURL),
       Line("IMDB ID: ", r.imdbID), Line("Trailer: ", r.trailer) >>

\* line 66
PrintRelease ==
    /\ pc = "info_print"
    /\ stdout' = stdout \o ReleaseStr(movieRelease)
    /\ pc' = "info_print_ratings"
    /\ UNCHANGED <<err, site, searchVars, infoVars>>

\* repr of a dict of str: {'k': 'v', 'k': 'v'}
RECURSIVE DictItemsRepr(_)
DictItemsRepr(d) ==
    IF d = <<>> THEN <<>>
    ELSE <<"'">> \o d[1][1] \o <<"'", ":", " ", "'">> \o d[1][2] \o <<"'">>
         \o (IF Len(d) > 1 THEN <<",", " ">> ELSE <<>>)
         \o DictItemsRepr(Tail(d))

DictRepr(d) == <<"{">> \o DictItemsRepr(d) \o <<"}">>

\* line 67: print('\n', ratings) writes an empty line, then " " and the repr
PrintRatings ==
    /\ pc = "info_print_ratings"
    /\ stdout' = stdout \o <<Line("", <<>>), Line(" ", DictRepr(ratings))>>
    /\ pc' = "done"
    /\ UNCHANGED <<err, site, searchVars, infoVars>>

InfoNext ==
    \/ BuildTitleURL
    \/ FetchInfo
    \/ ReadSubheading
    \/ FindRatingCells
    \/ BuildRatings
    \/ PadStudio
    \/ InsertCoverArt
    \/ InsertAmazon
    \/ InsertImdb
    \/ InsertTrailer
    \/ InsertTitle
    \/ ConstructRelease
    \/ PrintRelease
    \/ PrintRatings

----------------------------------------------------------------------------
(* Inputs of the detail tool.                                              *)

\* a subheading line of n parts "p1 | p2 | ... | pn"
RECURSIVE SubheadingOf(_)
SubheadingOf(n) ==
    IF n = 1 THEN <<"p", Digits[2]>>
    ELSE SubheadingOf(n - 1) \o <<" ", "|", " ">> \o <<"p", Digits[n + 1]>>

Subheadings == {<<>>} \cup {<<SubheadingOf(n)>> : n \in 1..MaxParts}

RatingLabels == {Text3D, TextVideo4k, <<"V">>, <<"A">>, <<"E">>}

\* a flat cell sequence of n cells: labels at offsets 0, 3, 6, ..., a value that
\* names its own offset two cells later, filler in between
TableOf(labels, n) ==
    [k \in 1..n |->
        IF (k - 1) % 3 = 0 THEN labels[(k - 1) \div 3 + 1]
        ELSE IF (k - 1) % 3 = 2 THEN <<"v", Digits[(k - 1) \div 3 + 1]>>
        ELSE <<"-">>]

AllTables ==
    {TableOf(labels, n) :
        labels \in [1..(MaxCells \div 3 + 1) -> RatingLabels], n \in 0..MaxCells}

StandardTable == TableOf(<<<<"V">>, <<"A">>, <<"E">>>>, 9)

RatingDiv(cells) == <<[table |-> <<cells>>]>>

FewRatings ==
    {<<>>, <<[table |-> <<>>]>>, RatingDiv(StandardTable),
     RatingDiv(TableOf(<<Text3D, <<"V">>, <<"A">>, <<"E">>, <<"O">>>>, 14)),
     RatingDiv(TableOf(<<Text3D, <<"V">>, <<"A">>, <<"E">>, <<"O">>>>, 15))}

ImdbExample == <<"h","t","t","p","s",":","/","/","w","w","w",".","i","m","d","b",".","c","o","m","/","t","i","t","l","e","/","t","t","1","2","3","4","5","6","7","/">>
TitleSinners == <<"S","i","n","n","e","r","s"," ","(","2","0","2","5",")">>
TitleFastFurious == <<"F","a","s","t","+","F","u","r","i","o","u","s">>

TitleChars == {" ", "(", "+", "a"}
UrlChars == {"/", "t"}

Doc(sub, rating, img, buy, imdb, trailer) ==
    [subheading |-> sub, rating |-> rating, frontimage |-> img, buylink |-> buy,
     imdb |-> imdb, trailer |-> trailer]

GoodTrailer == <<[source |-> <<<<"m", "p", "4">>>>]>>

DocWith(sub, rating, imdb) ==
    Doc(sub, rating, <<<<"j", "p", "g">>>>, <<<<"a", "m", "z">>>>, imdb, GoodTrailer)

EmptyDoc == Doc(<<>>, <<>>, <<>>, <<>>, <<>>, <<>>)

InitInfoWith(titles, ids, docs) ==
    /\ pc = "info_start"
    /\ err = ""
    /\ stdout = <<>>
    /\ site \in docs
    /\ titleInput \in titles
    /\ titleID \in ids
    /\ titleClean = Idle /\ titleURL = Idle /\ soup = Idle /\ titleInfo = Idle
    /\ td = Idle /\ ratings = Idle /\ movieRelease = Idle
    /\ searchInput = Idle /\ searchTerm = Idle /\ url = Idle
    /\ searchresults = Idle /\ movies = <<>> /\ i = 1 /\ j = 1

\* pages that differ in every element the extractor reads
DetailInit ==
    InitInfoWith({TitleSinners, <<"a">>}, {<<"4", "2">>},
        {Doc(sub, rating, img, buy, imdb, trailer) :
            sub \in Subheadings, rating \in FewRatings,
            img \in {<<>>, <<<<"j", "p", "g">>>>},
            buy \in {<<>>, <<<<"a", "m", "z">>>>},
            imdb \in {<<>>, <<ImdbExample>>, <<<<"/", "t", "/">>>>},
            trailer \in {<<>>, <<[source |-> <<>>]>>, GoodTrailer}})
DetailSpec == DetailInit /\ [][InfoNext]_vars

\* many titles
SlugInit ==
    InitInfoWith(SeqsUpTo(TitleChars, MaxTitleLen) \cup {TitleSinners, TitleFastFurious},
        {<<"4", "2">>, <<"7">>},
        {EmptyDoc, DocWith(<<SubheadingOf(5)>>, RatingDiv(StandardTable), <<ImdbExample>>)})
SlugSpec == SlugInit /\ [][InfoNext]_vars

\* many ratings tables
RatingsInit ==
    InitInfoWith({<<"a">>}, {<<"7">>},
        {DocWith(<<SubheadingOf(5)>>, RatingDiv(cells), <<ImdbExample>>) :
            cells \in AllTables})
RatingsSpec == RatingsInit /\ [][InfoNext]_vars

\* many IMDB links
ImdbInit ==
    InitInfoWith({<<"a">>}, {<<"7">>},
        {DocWith(sub, RatingDiv(StandardTable), <<link>>) :
            sub \in {<<SubheadingOf(4)>>, <<SubheadingOf(5)>>},
            link \in SeqsUpTo(UrlChars, MaxUrlLen) \cup {ImdbExample}})
ImdbSpec == ImdbInit /\ [][InfoNext]_vars

----------------------------------------------------------------------------
(* Properties of the detail tool.                                          *)

\* the release record has been constructed
Constructed == pc \in {"info_print", "info_print_ratings", "done"}

\* the parts of the fetched page's subheading line
Parts == Split(soup.subheading[1], <<" ", "|", " ">>)

\* positions 5-9 (0-based) of the list hold cover art, purchase link, IMDB
\* link, trailer and the user's title
TailFieldsInPlace ==
    /\ titleInfo[6] = soup.frontimage[1]
    /\ titleInfo[7] = soup.buylink[1]
    /\ titleInfo[8] = soup.imdb[1]
    /\ titleInfo[9] = soup.trailer[1].source[1]
    /\ titleInfo[10] = titleInput

\* positions 0-4 hold studio, year, length, rating, date: the first five
\* parts, or an empty studio and the four parts
HeadFieldsInPlace ==
    IF Len(Parts) = 4
    THEN SubSeq(titleInfo, 1, 5) = <<<<>>>> \o Parts
    ELSE SubSeq(titleInfo, 1, 5) = SubSeq(Parts, 1, 5)

\* C2 as stated: whenever extraction succeeds the list handed to the
\* constructor has exactly 10 elements, studio..date at 0-4 and cover art,
\* purchase link, IMDB link, trailer, title at 5-9, whatever the number of parts.
C2_Original ==
    Constructed =>
        /\ Len(titleInfo) = 10
        /\ HeadFieldsInPlace
        /\ TailFieldsInPlace

\* C2 (amended): whenever extraction succeeds the subheading line had at least
\* 4 parts and the list handed to the constructor holds studio..date at 0-4 and
\* cover art, purchase link, IMDB link, trailer, title at 5-9; it has exactly 10
\* elements when the line has 4 or 5 parts, and n + 5 elements, the parts after
\* the fifth trailing the ten, when it has n > 5 parts.
C2_RecordShape ==
    Constructed =>
        /\ Len(Parts) >= 4
        /\ HeadFieldsInPlace
        /\ TailFieldsInPlace
        /\ Len(Parts) \in {4, 5} => Len(titleInfo) = 10
        /\ Len(Parts) > 5 =>
            /\ Len(titleInfo) = Len(Parts) + 5
            /\ Drop(titleInfo, 10) = Drop(Parts, 5)

\* a record built from a 4-part line
C2_Witness ==
    /\ pc = "done"
    /\ Len(Parts) = 4
    /\ Len(titleInfo) = 10
    /\ titleInfo[10] = TitleSinners

\* C3: a 4-part subheading gives an empty studio and year, length, rating,
\* date equal to the 4 parts in order; a 5-part subheading gives studio equal
\* to the first part and the other four fields equal to parts 2-5.
C3_StudioField ==
    Constructed =>
        LET r == movieRelease
            fields == <<r.studio, r.year, r.length, r.rating, r.date>>
        IN  /\ Len(Parts) = 4 =>
                /\ r.studio = <<>>
                /\ <<r.year, r.length, r.rating, r.date>> = Parts
            /\ Len(Parts) = 5 => fields = Parts

\* a record with an empty studio, built from the line "p1 | p2 | p3 | p4"
C3_Witness ==
    /\ pc = "done"
    /\ soup.subheading = <<SubheadingOf(4)>>
    /\ movieRelease.studio = <<>>
    /\ movieRelease.year = <<"p", "1">>
    /\ movieRelease.date = <<"p", "4">>

\* the ratings dict has been built
RatingsBuilt ==
    pc \notin {"info_start", "info_fetch", "info_subheading", "info_table",
               "info_ratings", "error"}
    \/ (pc = "error" /\ ratings # Idle)

\* td[k] of the source (0-based)
Cell(k) == td[k + 1]

\* the label offsets the variant selected by the first cell reads
LabelOffsets ==
    IF Cell(0) = <<"3", "D">> THEN {0, 3, 6, 9, 12}
    ELSE IF Cell(0) = <<"V", "i", "d", "e", "o", " ", "4", "k">> THEN {0, 3, 6, 9}
    ELSE {0, 3, 6}

\* C4 as stated: the mapping holds exactly 5 / 4 / 3 label/value pairs, the
\* pairs at the variant's offsets.
C4_Original ==
    RatingsBuilt =>
        /\ Len(ratings) = Cardinality(LabelOffsets)
        /\ \A o \in LabelOffsets :
            \E n \in 1..Len(ratings) : ratings[n] = <<Cell(o), Cell(o + 2)>>

\* C4 (amended): the mapping is built from the 5 / 4 / 3 label/value pairs at
\* the variant's offsets, read left to right: it holds one entry per distinct
\* label among them, a repeated label keeping the value of its last pair, so
\* exactly 5 / 4 / 3 entries when the labels are distinct.
C4_VariantSelection ==
    RatingsBuilt =>
        /\ \A o \in LabelOffsets : o + 2 < Len(td)
        /\ DictKeys(ratings) = {Cell(o) : o \in LabelOffsets}
        /\ Len(ratings) = Cardinality({Cell(o) : o \in LabelOffsets})
        /\ \A n \in 1..Len(ratings) :
            \E o \in LabelOffsets :
                /\ ratings[n] = <<Cell(o), Cell(o + 2)>>
                /\ \A later \in LabelOffsets : later > o => Cell(later) # Cell(o)
        /\ (\A o1, o2 \in LabelOffsets : o1 # o2 => Cell(o1) # Cell(o2))
            => Len(ratings) = Cardinality(LabelOffsets)

\* a 3D table of five distinct labels
C4_Witness ==
    /\ pc = "done"
    /\ Cell(0) = Text3D
    /\ Len(ratings) = 5
    /\ ratings[5] = <<Cell(12), <<"v", "4">>>>

\* the page lacks an element the extractor reads, or its ratings table is
\* shorter than the variant its first cell selects
Defective(doc) ==
    \/ doc.subheading = <<>>
    \/ doc.rating = <<>>
    \/ doc.frontimage = <<>>
    \/ doc.buylink = <<>>
    \/ doc.imdb = <<>>
    \/ doc.trailer = <<>>
    \/ doc.rating # <<>> /\ doc.rating[1].table = <<>>
    \/ doc.trailer # <<>> /\ doc.trailer[1].source = <<>>
    \/ /\ doc.rating # <<>>
       /\ doc.rating[1].table # <<>>
       /\ LET cells == doc.rating[1].table[1]
          IN  \/ cells = <<>>
              \/ cells # <<>> /\ cells[1] = <<"3", "D">> /\ Len(cells) < 15
              \/ /\ cells # <<>>
                 /\ cells[1] = <<"V", "i", "d", "e", "o", " ", "4", "k">>
                 /\ Len(cells) < 12
              \/ cells # <<>> /\ Len(cells) < 9

\* C6: a page that lacks an expected element, or whose ratings table is too
\* short, makes the run abort with an error having printed nothing; anything is
\* printed only after every extraction step has succeeded.
C6_AllOrNothing ==
    /\ pc = "error" => stdout = <<>> /\ err # ""
    /\ stdout # <<>> =>
        /\ pc \in {"info_print_ratings", "done"}
        /\ err = ""
        /\ ~Defective(soup)
        /\ movieRelease # Idle /\ ratings # Idle /\ Len(titleInfo) >= 10
    /\ Defective(site) =>
        /\ stdout = <<>>
        /\ ~Constructed
        /\ (pc = "error" /\ err # "RequestException")
            => err \in {"IndexError", "TypeError", "AttributeError"}

\* the last element read, the trailer source, is the one that is absent
C6_Witness ==
    /\ pc = "error"
    /\ err = "TypeError"
    /\ soup.trailer = <<[source |-> <<>>]>>
    /\ Len(titleInfo) = 8
    /\ ratings # Idle
    /\ stdout = <<>>

\* what one character of a title becomes in the slug
SlugChar(c) == IF c = " " THEN <<"-">> ELSE IF c = "+" THEN <<"a", "n", "d">> ELSE <<c>>

RECURSIVE SlugOf(_)
SlugOf(t) == IF t = <<>> THEN <<>> ELSE SlugChar(t[1]) \o SlugOf(Tail(t))

\* the part of t before its first " (", all of t if there is none
BeforeParen(t) ==
    LET at == {k \in 1..(Len(t) - 1) : t[k] = " " /\ t[k + 1] = "("}
    IN  IF at = {} THEN t
        ELSE SubSeq(t, 1, (CHOOSE k \in at : \A m \in at : k <= m) - 1)

\* C7: the slug is the part of the title before its first " (" with every
\* space turned into "-" and every "+" into "and", and the URL is
\* base + slug + "-Blu-ray/" + identifier + "/"; "Sinners (2025)" gives
\* "Sinners" and "Fast+Furious" gives "FastandFurious".
C7_SlugAndURL ==
    pc # "info_start" =>
        /\ titleClean = SlugOf(BeforeParen(titleInput))
        /\ titleURL =
            <<"h","t","t","p","s",":","/","/","w","w","w",".","b","l","u","-","r","a","y",".","c","o","m","/","m","o","v","i","e","s","/">>
            \o titleClean \o <<"-","B","l","u","-","r","a","y","/">> \o titleID \o <<"/">>
        /\ titleInput = TitleSinners => titleClean = <<"S","i","n","n","e","r","s">>
        /\ titleInput = TitleFastFurious =>
            titleClean = <<"F","a","s","t","a","n","d","F","u","r","i","o","u","s">>

\* a generated title with a space, a "+" and a parenthetical
C7_Witness ==
    /\ pc = "info_fetch"
    /\ titleInput = <<"+", " ", "(">>
    /\ titleClean = <<"a", "n", "d">>

\* positions of "/" in a text
Slashes(u) == {k \in 1..Len(u) : u[k] = "/"}

\* the position of the n-th "/" of u
NthSlash(u, n) ==
    CHOOSE k \in Slashes(u) : Cardinality({m \in Slashes(u) : m <= k}) = n

\* the text between the 4th "/" and the next "/" or the end
FifthSegment(u) ==
    LET from == NthSlash(u, 4)
        to == IF Cardinality(Slashes(u)) >= 5 THEN NthSlash(u, 5) ELSE Len(u) + 1
    IN  SubSeq(u, from + 1, to - 1)

\* C9: the imdbID of every assembled record is the 5th "/"-delimited segment
\* of its IMDB URL ("tt1234567" for the example URL); a URL of fewer than 5
\* segments makes construction fail with an error and no record.
C9_ImdbID ==
    /\ Constructed =>
        /\ movieRelease.imdbURL = soup.imdb[1]
        /\ Cardinality(Slashes(movieRelease.imdbURL)) >= 4
        /\ movieRelease.imdbID = FifthSegment(movieRelease.imdbURL)
        /\ movieRelease.imdbURL = ImdbExample =>
            movieRelease.imdbID = <<"t","t","1","2","3","4","5","6","7">>
    /\ (pc = "info_release" /\ Cardinality(Slashes(titleInfo[8])) < 4) =>
        /\ ENABLED ConstructRelease
        /\ ~ENABLED (ConstructRelease /\ pc' # "error")
    /\ (pc \in {"done", "error"} /\ soup # Idle /\ soup.imdb # <<>>
            /\ Len(titleInfo) >= 10 /\ Cardinality(Slashes(soup.imdb[1])) < 4) =>
        /\ pc = "error" /\ err = "IndexError"
        /\ movieRelease = Idle

\* the example URL
C9_Witness ==
    /\ pc = "done"
    /\ movieRelease.imdbURL = ImdbExample
    /\ movieRelease.imdbID = <<"t","t","1","2","3","4","5","6","7">>

=============================================================================
